---------------------------- MODULE Spec2Model ----------------------------
(***************************************************************************)
(* BuildPost: the commit-to-post pipeline.                                 *)
(*                                                                         *)
(*   core/git_parser.py   GitParser._parse_commit, _create_diff_summary    *)
(*   core/ai_service.py   AIService                                        *)
(*   cli.py               the main command                                 *)
(*                                                                         *)
(* Text is modelled as a sequence of one-character strings, so that the    *)
(* formatting of numbers, the joining of clauses and the splitting of a    *)
(* path at its extension are computed as the code computes them.           *)
(***************************************************************************)
EXTENDS Integers, Sequences, FiniteSets, TLC

VARIABLES
    commit,       \* the raw commit handed to GitParser._parse_commit
    info,         \* the CommitInfo it returned (commit_info of cli), or NoInfo
    file_types,   \* local of _create_diff_summary: the extension dict
    top_types,    \* local of _create_diff_summary: the sorted, cut list
    pc,           \* where the main command stands
    build,        \* which side of the conflict blocks of ai_service.py is in force
    active_provider,  \* cli.py:43: the provider option, else the configured one
    ai_service,   \* the AIService instance, or NoService
    mode,         \* "range", "commit" or "latest", once the options were read
    commits,      \* range mode: the CommitInfo list of get_commit_range
    prompt_style, target_platform,
    rendered_prompt,    \* <<>> or <<[system, user]>>
    generated_content,  \* <<>> or <<text>>
    platform_config,    \* <<>> or <<profile>>
    no_hashtags,        \* <<>> or <<flag>>: the --no-hashtags option
    include_hashtags,   \* <<>> or <<flag>>: config.should_include_hashtags()
    max_tags,           \* <<>> or <<n>>: prompt_engine.get_max_hashtags()
    hashtags,           \* <<>> (None) or <<list>>
    formatted_post,     \* <<>> or <<text>>
    shown,              \* <<>> or <<[char_count, max_length, count_color]>>
    out,                \* what console.print was called with, in order
    exit_code,          \* <<>> while running, <<status>> once the process ended
    trace,              \* the calls of the pipeline made so far, in order
    gen_calls,          \* calls of client.chat.completions.create so far
    response,           \* <<>> or <<r>>: what the last of these calls did
    raised              \* the exception that ended the invocation, or None

parserVars == <<commit, info, file_types, top_types>>

cliVars == <<pc, build, active_provider, ai_service, mode, commits, prompt_style, target_platform,
             rendered_prompt, generated_content, platform_config, no_hashtags,
             include_hashtags, max_tags, hashtags, formatted_post, shown, out,
             exit_code, trace, gen_calls, response, raised>>

vars == <<parserVars, cliVars>>

None == "None"

\* an absent path of a diff entry (None or the empty string: both are falsy)
NoPath == <<>>

\* no CommitInfo yet
NoInfo == [hash |-> None]

(***************************************************************************)
(* Bounds of the model.                                                    *)
(***************************************************************************)
MaxFiles == 4      \* longest changed-file list of a root commit
MaxDiffs == 2      \* most diff entries against one parent
MaxRange == 2      \* most commits a revision range resolves to
MaxTags  == 3      \* largest global hashtag cap of the template store

(***************************************************************************)
(* Text helpers.                                                           *)
(***************************************************************************)
Min(a, b) == IF a <= b THEN a ELSE b

Digits == <<"0", "1", "2", "3", "4", "5", "6", "7", "8", "9">>

\* str(n) of a non-negative int, as the f-strings of _create_diff_summary use it
RECURSIVE IntToStr(_)
IntToStr(n) ==
    IF n < 10 THEN <<Digits[n + 1]>>
    ELSE IntToStr(n \div 10) \o <<Digits[(n % 10) + 1]>>

\* sep.join(parts)
RECURSIVE Join(_, _)
Join(parts, sep) ==
    IF parts = <<>> THEN <<>>
    ELSE IF Len(parts) = 1 THEN parts[1]
    ELSE parts[1] \o sep \o Join(Tail(parts), sep)

\* str.rfind: the last index of character c in p, 0 when there is none
RFind(p, c) ==
    LET hits == {i \in 1..Len(p) : p[i] = c}
    IN  IF hits = {} THEN 0 ELSE CHOOSE i \in hits : \A j \in hits : j <= i

\* sub in s
Contains(s, sub) ==
    \E i \in 1..(Len(s) - Len(sub) + 1) : SubSeq(s, i, i + Len(sub) - 1) = sub

(***************************************************************************)
(* String literals of git_parser.py.                                       *)
(***************************************************************************)
NoExtension == <<"n", "o", " ", "e", "x", "t", "e", "n", "s", "i", "o", "n">>
SFile       == <<" ", "f", "i", "l", "e">>
SChanged    == <<" ", "c", "h", "a", "n", "g", "e", "d">>
STypes      == <<"t", "y", "p", "e", "s", ":", " ">>
SBar        == <<" ", "|", " ">>
SComma      == <<",", " ">>
SSpace      == <<" ">>

\* top_types = sorted(...)[:3]
TopN == 3

(***************************************************************************)
(* os.path.splitext(file_path)[1] (posixpath): the extension starts at the *)
(* last '.', if that dot lies after the last '/' and some character        *)
(* between the two is not a dot; the loop skips the leading dots of the    *)
(* file name.                                                              *)
(***************************************************************************)
\* a variant that cuts at the last '.' wherever it stands
SplitExtLastDot(p) ==
    IF RFind(p, ".") = 0 THEN <<>> ELSE SubSeq(p, RFind(p, "."), Len(p))

RECURSIVE SplitExtLoop(_, _, _)
SplitExtLoop(p, filenameIndex, dotIndex) ==
    IF filenameIndex < dotIndex
    THEN IF p[filenameIndex] # "."
         THEN SubSeq(p, dotIndex, Len(p))
         ELSE SplitExtLoop(p, filenameIndex + 1, dotIndex)
    ELSE <<>>

SplitExt(p) ==
    LET sepIndex == RFind(p, "/")
        dotIndex == RFind(p, ".")
    IN  IF dotIndex > sepIndex
        THEN SplitExtLoop(p, sepIndex + 1, dotIndex)
        ELSE <<>>

\* ext = os.path.splitext(file_path)[1] or 'no extension'
ExtOf(file_path) ==
    IF SplitExt(file_path) # <<>> THEN SplitExt(file_path) ELSE NoExtension

(***************************************************************************)
(* file_types: a dict, modelled as the sequence of its items in insertion  *)
(* order, [ext, count].                                                    *)
(***************************************************************************)
DictAdd(d, ext) ==
    IF \E i \in 1..Len(d) : d[i].ext = ext
    THEN [i \in 1..Len(d) |->
            IF d[i].ext = ext THEN [ext |-> ext, count |-> d[i].count + 1]
            ELSE d[i]]
    ELSE Append(d, [ext |-> ext, count |-> 1])

RECURSIVE CountTypes(_, _)
CountTypes(files, d) ==
    IF files = <<>> THEN d
    ELSE CountTypes(Tail(files), DictAdd(d, ExtOf(Head(files))))

FileTypes(files) == CountTypes(files, <<>>)

(***************************************************************************)
(* sorted(items, key=count, reverse=True): Python's sort is stable, also   *)
(* under reverse=True, so items of equal count keep their dict order.      *)
(***************************************************************************)
\* a variant whose sort is not stable: equal counts end up reversed
InsertByCountTiesFirst(sorted, x) ==
    LET before == {i \in 1..Len(sorted) : sorted[i].count > x.count}
        k == Cardinality(before)
    IN  SubSeq(sorted, 1, k) \o <<x>> \o SubSeq(sorted, k + 1, Len(sorted))

InsertByCount(sorted, x) ==
    LET before == {i \in 1..Len(sorted) : sorted[i].count >= x.count}
        k == Cardinality(before)
    IN  SubSeq(sorted, 1, k) \o <<x>> \o SubSeq(sorted, k + 1, Len(sorted))

RECURSIVE SortLoop(_, _)
SortLoop(items, sorted) ==
    IF items = <<>> THEN sorted
    ELSE SortLoop(Tail(items), InsertByCount(sorted, Head(items)))

SortedByCount(items) == SortLoop(items, <<>>)

\* a variant that cuts one item too late
TopTypesOneMore(files) ==
    LET s == SortedByCount(FileTypes(files))
    IN  SubSeq(s, 1, Min(TopN + 1, Len(s)))

TopTypes(files) ==
    LET s == SortedByCount(FileTypes(files))
    IN  SubSeq(s, 1, Min(TopN, Len(s)))

\* f"{ext} ({count})"
TypeItem(t) == t.ext \o <<" ", "(">> \o IntToStr(t.count) \o <<")">>

TypeStr(top) == Join([i \in 1..Len(top) |-> TypeItem(top[i])], SComma)

\* a variant that never drops the plural
CountPartPlural(file_count) ==
    IntToStr(file_count) \o SFile \o <<"s">> \o SChanged

\* f"{file_count} file{'s' if file_count != 1 else ''} changed"
CountPart(file_count) ==
    IntToStr(file_count) \o SFile
        \o (IF file_count # 1 THEN <<"s">> ELSE <<>>) \o SChanged

ChangesPart(insertions, deletions) ==
    Join((IF insertions # 0 THEN << <<"+">> \o IntToStr(insertions) >> ELSE <<>>)
         \o (IF deletions # 0 THEN << <<"-">> \o IntToStr(deletions) >> ELSE <<>>),
         SSpace)

\* a variant that emits the types clause without testing file_types
CreateDiffSummaryAlwaysTypes(files, insertions, deletions) ==
    LET parts2 == << CountPart(Len(files)), STypes \o TypeStr(TopTypes(files)) >>
        parts3 == IF insertions # 0 \/ deletions # 0
                  THEN Append(parts2, ChangesPart(insertions, deletions))
                  ELSE parts2
    IN  Join(parts3, SBar)

CreateDiffSummary(files, insertions, deletions) ==
    LET parts1 == << CountPart(Len(files)) >>
        parts2 == IF FileTypes(files) # <<>>
                  THEN Append(parts1, STypes \o TypeStr(TopTypes(files)))
                  ELSE parts1
        parts3 == IF insertions # 0 \/ deletions # 0
                  THEN Append(parts2, ChangesPart(insertions, deletions))
                  ELSE parts2
    IN  Join(parts3, SBar)

(***************************************************************************)
(* GitParser._parse_commit                                                 *)
(***************************************************************************)
\* a variant that prefers the after-path
RECURSIVE DiffPathsAfterFirst(_)
DiffPathsAfterFirst(diffs) ==
    IF diffs = <<>> THEN <<>>
    ELSE LET d == Head(diffs)
         IN  (IF d.b_path # NoPath THEN <<d.b_path>>
              ELSE IF d.a_path # NoPath THEN <<d.a_path>>
              ELSE <<>>) \o DiffPathsAfterFirst(Tail(diffs))

\* for diff in diffs: a_path if present, elif b_path
RECURSIVE DiffPaths(_)
DiffPaths(diffs) ==
    IF diffs = <<>> THEN <<>>
    ELSE LET d == Head(diffs)
         IN  (IF d.a_path # NoPath THEN <<d.a_path>>
              ELSE IF d.b_path # NoPath THEN <<d.b_path>>
              ELSE <<>>) \o DiffPaths(Tail(diffs))

\* a variant without the branch for the initial commit
FilesChangedNoRoot(c) ==
    IF c.parents # <<>> THEN DiffPaths(c.parents[1]) ELSE <<>>

FilesChanged(c) ==
    IF c.parents # <<>> THEN DiffPaths(c.parents[1]) ELSE c.stats_files

\* str.strip(): leading and trailing whitespace removed
Whitespace == {" ", "\n", "\t"}

RECURSIVE LStrip(_)
LStrip(t) ==
    IF t # <<>> /\ Head(t) \in Whitespace THEN LStrip(Tail(t)) ELSE t

RECURSIVE RStrip(_)
RStrip(t) ==
    IF t # <<>> /\ t[Len(t)] \in Whitespace
    THEN RStrip(SubSeq(t, 1, Len(t) - 1)) ELSE t

Strip(t) == RStrip(LStrip(t))

\* short_hash = commit.hexsha[:7]
ShortLen == 7

ParseCommit(c) ==
    LET files == FilesChanged(c)
    IN  [hash          |-> c.hexsha,
         short_hash    |-> SubSeq(c.hexsha, 1, Min(ShortLen, Len(c.hexsha))),
         message       |-> Strip(c.message),
         author        |-> c.author_name \o <<" ", "<">> \o c.author_email \o <<">">>,
         date          |-> c.date,
         files_changed |-> files,
         diff_summary  |-> CreateDiffSummary(files, c.insertions, c.deletions),
         insertions    |-> c.insertions,
         deletions     |-> c.deletions]

(***************************************************************************)
(* Inputs: the paths and raw commits the version-control provider hands    *)
(* over.  A raw commit carries its hexsha, one diff list per parent        *)
(* (parent.diff(commit)), the keys of commit.stats.files and the totals of *)
(* commit.stats.total.                                                     *)
(***************************************************************************)
PAPy       == <<"a", ".", "p", "y">>
PBPy       == <<"b", ".", "p", "y">>
PCMd       == <<"c", ".", "m", "d">>
PGitignore == <<".", "g", "i", "t", "i", "g", "n", "o", "r", "e">>
PDirFile   == <<"d", "i", "r", ".", "v", "2", "/", "f", "i", "l", "e">>
PTrailDot  == <<"a", ".">>
PTarGz     == <<"a", ".", "t", "a", "r", ".", "g", "z">>

\* the fields of a raw commit that do not depend on its files
Sha0    == <<"c", "0", "f", "f", "e", "e", "0", "0">>
Sha1    == <<"c", "1", "a", "0", "b", "2", "c", "3", "d", "4">>
Sha2    == <<"c", "2", "d", "0", "0", "d", "1", "e">>
Msg0    == <<"I", "n", "i", "t", "i", "a", "l", " ", "c", "o", "m", "m", "i", "t", "\n">>
Msg1    == <<" ", "F", "i", "x", " ", "b", "u", "g", "\n", "\n">>
Msg2    == <<"A", "d", "d", " ", "d", "o", "c", "s">>
Author  == [name |-> <<"A", "d", "a">>, email |-> <<"a", "@", "x", ".", "i", "o">>]
Date0   == <<"2", "0", "2", "4", "-", "0", "1", "-", "0", "2", " ", "0", "3", ":", "0", "4", ":", "0", "5">>

RawCommit(sha, msg, parents, stats_files, ins, del) ==
    [hexsha |-> sha, message |-> msg,
     author_name |-> Author.name, author_email |-> Author.email, date |-> Date0,
     parents |-> parents, stats_files |-> stats_files,
     insertions |-> ins, deletions |-> del]

Paths == {PAPy, PBPy, PCMd, PGitignore, PDirFile, PTrailDot, PTarGz}

\* paths of the diff entries of a non-root commit
DiffPathSet == {PAPy, PCMd, PGitignore}

\* (insertions, deletions) of commit.stats.total
LinePairs == {<<0, 0>>, <<10, 2>>}
ChildLinePairs == {<<0, 4>>, <<3, 0>>, <<10, 2>>}

SeqUpTo(S, n) == UNION {[1..k -> S] : k \in 0..n}

\* a diff entry names its before-path, its after-path or both (a rename
\* names two different ones); git never emits an entry without any path
DiffEntries ==
    {d \in [a_path : DiffPathSet \cup {NoPath}, b_path : DiffPathSet \cup {NoPath}] :
        d.a_path # NoPath \/ d.b_path # NoPath}

\* the diffs against a second parent of a merge commit
OtherParentDiffs == {<<[a_path |-> PBPy, b_path |-> PBPy]>>}

\* git diff --numstat names the after-path of an entry
RECURSIVE NumstatPaths(_)
NumstatPaths(diffs) ==
    IF diffs = <<>> THEN <<>>
    ELSE <<IF Head(diffs).b_path # NoPath THEN Head(diffs).b_path
           ELSE Head(diffs).a_path>> \o NumstatPaths(Tail(diffs))

RootCommits ==
    {RawCommit(Sha0, Msg0, <<>>, fs, lp[1], lp[2]) :
        fs \in SeqUpTo(Paths, MaxFiles), lp \in LinePairs}

ChildCommits ==
    {RawCommit(Sha1, Msg1, <<ds>> \o rest, NumstatPaths(ds), lp[1], lp[2]) :
        ds \in SeqUpTo(DiffEntries, MaxDiffs),
        rest \in {<<>>} \cup {<<o>> : o \in OtherParentDiffs},
        lp \in ChildLinePairs}

(***************************************************************************)
(* core/ai_service.py.  The file holds unresolved conflict blocks          *)
(* (<<<<<<< HEAD ... ======= ... >>>>>>>): as it stands it does not        *)
(* compile, and each side of the blocks is a program it may be resolved    *)
(* to.  build chooses among the three.                                     *)
(***************************************************************************)
Builds == {"conflict", "HEAD", "incoming"}

\* PROVIDER_INFO.keys(), in definition order
SupportedProviders == <<"openai", "groq", "openrouter">>

IsSupported(p) == \E i \in 1..Len(SupportedProviders) : SupportedProviders[i] = p

\* DEFAULT_MODELS.get(provider)
DefaultModel(b, provider) ==
    CASE provider = "openai" -> "gpt-4o-mini"
      [] provider = "groq" -> "qwen/qwen3-32b"
      [] provider = "openrouter" /\ b = "incoming" -> "openai/gpt-4o-mini"
      [] OTHER -> None

\* the client __init__ builds; None when no branch matches (the attribute
\* is never set)
ClientFor(b, provider) ==
    CASE provider = "openai" -> "OpenAI"
      [] provider = "groq" -> "Groq"
      [] provider = "openrouter" /\ b = "incoming" -> "OpenAI(openrouter)"
      [] OTHER -> None

NoService == [provider |-> None]

\* AIService(provider, api_key, model): the instance, or the ValueError
NewService(b, provider, has_key, model) ==
    LET p == IF provider = None THEN "openai" ELSE provider
        model_name == IF model # None THEN model ELSE DefaultModel(b, p)
    IN  IF ~IsSupported(p) THEN [ok |-> FALSE, error |-> "ValueError"]
        ELSE IF ~has_key THEN [ok |-> FALSE, error |-> "ValueError"]
        ELSE IF model_name = None THEN [ok |-> FALSE, error |-> "ValueError"]
        ELSE [ok |-> TRUE,
              service |-> [provider |-> p, model_name |-> model_name,
                           client |-> ClientFor(b, p)]]

\* what client.chat.completions.create may do: raise, or answer with no
\* choices, or with a message whose content is absent, a text or a list
\* a text longer than the limit of every short-form platform
LongText == [i \in 1..450 |-> "x"]

\* a text of exactly the length the shortest platform allows
LimitText == [i \in 1..280 |-> "y"]

Texts == {<<" ", "H", "i", "\n">>, <<"H", "i">>, <<" ", " ">>, <<>>, LongText,
          LimitText}

Responses ==
    {[kind |-> "raises"], [kind |-> "no_choices"], [kind |-> "none"]}
    \cup {[kind |-> "str", text |-> t] : t \in Texts}
    \cup {[kind |-> "list", parts |-> <<<<"H", "i">>, <<"y", "o", " ">>>>]}

Failed == [ok |-> FALSE, error |-> "Exception"]

\* _generate_with_openai and _generate_with_openrouter
GenerateWithOpenAI(resp) ==
    IF resp.kind = "str" THEN [ok |-> TRUE, text |-> Strip(resp.text)]
    ELSE IF resp.kind = "list"
         THEN [ok |-> TRUE, text |-> Strip(Join(resp.parts, SSpace))]
    ELSE Failed

\* _generate_with_groq
GenerateWithGroq(resp) ==
    IF resp.kind = "str" THEN [ok |-> TRUE, text |-> Strip(resp.text)]
    ELSE Failed

\* generate_post reaches a backend call for this instance
Dispatches(b, service) ==
    \/ service.provider \in {"openai", "groq"}
    \/ service.provider = "openrouter" /\ b = "incoming"

\* AIService.generate_post
GeneratePost(b, service, resp) ==
    IF service.provider = "openai" THEN GenerateWithOpenAI(resp)
    ELSE IF service.provider = "groq" THEN GenerateWithGroq(resp)
    ELSE IF service.provider = "openrouter" /\ b = "incoming"
         THEN GenerateWithOpenAI(resp)
    ELSE Failed

(***************************************************************************)
(* CommitInfo.to_dict: the field mapping handed to the renderer.           *)
(***************************************************************************)
SNoFiles == <<"N", "o", " ", "f", "i", "l", "e", "s">>

FieldNames == {"commit_hash", "short_hash", "commit_message", "author", "date",
               "files_changed", "diff_summary", "insertions", "deletions",
               "files_count"}

ToDict(ci) ==
    [commit_hash    |-> ci.hash,
     short_hash     |-> ci.short_hash,
     commit_message |-> ci.message,
     author         |-> ci.author,
     date           |-> ci.date,
     files_changed  |-> IF ci.files_changed # <<>>
                        THEN Join(ci.files_changed, SComma) ELSE SNoFiles,
     diff_summary   |-> ci.diff_summary,
     insertions     |-> IntToStr(ci.insertions),
     deletions      |-> IntToStr(ci.deletions),
     files_count    |-> IntToStr(Len(ci.files_changed))]

(***************************************************************************)
(* The collaborators whose code is not part of these sources, from their   *)
(* specification: the template store and renderer (PromptEngine), the      *)
(* platform formatter (format_post).                                       *)
(***************************************************************************)
\* a template text is a sequence of parts, each a literal or a placeholder
Lit(text) == [field |-> None, text |-> text]
Field(name) == [field |-> name, text |-> <<>>]

Templates ==
    [casual |->
        [system |-> <<Lit(<<"B", "e", " ", "c", "a", "s", "u", "a", "l", ".">>)>>,
         user   |-> <<Lit(<<"C", "o", "m", "m", "i", "t", " ">>), Field("short_hash"),
                      Lit(<<":", " ">>), Field("commit_message")>>],
     broken |->
        [system |-> <<Lit(<<"B", "e", " ", "b", "r", "i", "e", "f", ".">>)>>,
         user   |-> <<Lit(<<"O", "n", " ">>), Field("branch"),
                      Lit(<<":", " ">>), Field("commit_message")>>]]

StyleNames == {"casual", "broken", "nostyle"}

\* the placeholders of a text that the mapping does not resolve, in order
RECURSIVE Unresolved(_, _)
Unresolved(parts, fields) ==
    IF parts = <<>> THEN <<>>
    ELSE (IF Head(parts).field # None /\ Head(parts).field \notin fields
          THEN <<Head(parts).field>> ELSE <<>>)
            \o Unresolved(Tail(parts), fields)

RECURSIVE Substitute(_, _)
Substitute(parts, mapping) ==
    IF parts = <<>> THEN <<>>
    ELSE (IF Head(parts).field = None THEN Head(parts).text
          ELSE mapping[Head(parts).field]) \o Substitute(Tail(parts), mapping)

\* PromptEngine.render_prompt(style, mapping)
RenderPrompt(style, mapping) ==
    IF style \notin DOMAIN Templates
    THEN [ok |-> FALSE, error |-> "TemplateNotFound", name |-> style]
    ELSE LET t == Templates[style]
             missing == Unresolved(t.system \o t.user, DOMAIN mapping)
         IN  IF missing # <<>>
             THEN [ok |-> FALSE, error |-> "MissingPlaceholder", name |-> missing[1]]
             ELSE [ok |-> TRUE,
                   prompt |-> [system |-> Substitute(t.system, mapping),
                               user   |-> Substitute(t.user, mapping)]]

\* the class a missing placeholder is raised as is not fixed by the
\* specification: KeyError (what str.format raises) or another Exception
PlaceholderErrorClasses == {"KeyError", "Exception"}

Platforms ==
    [twitter  |-> [max_length |-> 280,
                   hashtags |-> <<<<"d", "e", "v">>, <<"g", "i", "t">>,
                                  <<"c", "o", "d", "e">>, <<"a", "i">>>>],
     linkedin |-> [max_length |-> 3000, hashtags |-> <<>>],
     devto    |-> [max_length |-> 5000,
                   hashtags |-> <<<<"o", "s", "s">>, <<"d", "e", "v">>>>]]

PlatformNames == {"twitter", "linkedin", "devto", "mastodon"}

\* a variant whose slice ends one item later
PrefixOneMore(list, n) == SubSeq(list, 1, Min(n + 1, Len(list)))

\* hashtags[:max_tags]
Prefix(list, n) == SubSeq(list, 1, Min(n, Len(list)))

\* format_post: the text, then a blank line and the tags, each with '#'
FormatPost(text, tags) ==
    IF tags = <<>> \/ tags[1] = <<>> THEN text
    ELSE text \o <<"\n", "\n">>
            \o Join([i \in 1..Len(tags[1]) |-> <<"#">> \o tags[1][i]], SSpace)

(***************************************************************************)
(* The repository the command runs in: three commits, newest first.        *)
(***************************************************************************)
CommitA == RawCommit(Sha0, Msg0, <<>>, <<PAPy, PBPy, PCMd>>, 10, 2)
CommitB == RawCommit(Sha1, Msg1, << <<[a_path |-> PAPy, b_path |-> PCMd]>> >>,
                     <<PCMd>>, 0, 4)
CommitC == RawCommit(Sha2, Msg2,
                     << <<[a_path |-> NoPath, b_path |-> PGitignore]>>,
                        <<[a_path |-> PBPy, b_path |-> PBPy]>> >>,
                     <<PGitignore>>, 1, 0)

History == <<CommitC, CommitB, CommitA>>

\* list(repo.iter_commits(rev_range)): a stretch of the history
RangeResults ==
    {SubSeq(History, i, j) : i \in 1..Len(History), j \in 0..Len(History)}
        \cap SeqUpTo({CommitA, CommitB, CommitC}, MaxRange)

NoCommit == [hexsha |-> <<>>]

\* platform_config = {"max_length": 500}
GenericMaxLength == 500
\* platform_config.get("max_length", 500)
DefaultMaxLength == 500

(***************************************************************************)
(* cli(): the main command, one action per call it makes.                  *)
(***************************************************************************)
Init ==
    /\ commit = NoCommit
    /\ info = NoInfo
    /\ file_types = <<>>
    /\ top_types = <<>>
    /\ pc = "import"
    /\ build \in Builds
    /\ active_provider = None
    /\ ai_service = NoService
    /\ mode = None
    /\ commits = <<>>
    /\ prompt_style = None
    /\ target_platform = None
    /\ rendered_prompt = <<>>
    /\ generated_content = <<>>
    /\ platform_config = <<>>
    /\ no_hashtags = <<>>
    /\ include_hashtags = <<>>
    /\ max_tags = <<>>
    /\ hashtags = <<>>
    /\ formatted_post = <<>>
    /\ shown = <<>>
    /\ out = <<>>
    /\ exit_code = <<>>
    /\ trace = <<>>
    /\ gen_calls = 0
    /\ response = <<>>
    /\ raised = None

\* a variant whose handlers print and then go on
AbortNoExit(exc, messages) ==
    /\ pc' = pc
    /\ exit_code' = exit_code
    /\ raised' = exc
    /\ out' = out \o messages

\* sys.exit(1) after the messages, or an exception that reaches the
\* handlers of lines 183-190 (which print and exit 1 as well)
Abort(exc, messages) ==
    /\ pc' = "exited"
    /\ exit_code' = <<1>>
    /\ raised' = exc
    /\ out' = out \o messages

\* cli.py:11-15: the imports; ai_service.py with its conflict markers left
\* in is a SyntaxError
ImportModules ==
    /\ pc = "import"
    /\ IF build = "conflict"
       THEN /\ Abort("SyntaxError", <<"Traceback">>)
            /\ UNCHANGED trace
       ELSE /\ pc' = "start"
            /\ trace' = Append(trace, "import")
            /\ UNCHANGED <<exit_code, raised, out>>
    /\ UNCHANGED <<parserVars, build, active_provider, ai_service, mode, commits, prompt_style,
                   target_platform, rendered_prompt, generated_content,
                   platform_config, no_hashtags, include_hashtags, max_tags,
                   hashtags, formatted_post, shown, gen_calls, response>>

\* cli.py:40-81: provider and key checks, GitParser(), AIService()
InitServices ==
    /\ pc = "start"
    /\ \E provider \in {None, "openai", "groq", "openrouter"},
          cfg_provider \in {"openai", "groq", "openrouter", "azure"},
          has_key \in BOOLEAN, valid_repo \in BOOLEAN, model \in {None, "my-model"} :
        LET chosen == IF provider # None THEN provider ELSE cfg_provider
            made == NewService(build, chosen, has_key, model)
        IN  /\ active_provider' = chosen
            /\ IF ~IsSupported(chosen)
               THEN /\ Abort("SystemExit", <<"Error: Unsupported provider">>)
                    /\ UNCHANGED ai_service
               ELSE IF ~has_key
               THEN /\ Abort("SystemExit", <<"Error: No API key found">>)
                    /\ UNCHANGED ai_service
               ELSE IF ~valid_repo
               THEN /\ Abort("InvalidGitRepositoryError",
                             <<"Error: not a git repository">>)
                    /\ UNCHANGED ai_service
               ELSE IF ~made.ok
               THEN /\ Abort(made.error, <<"Unexpected error">>)
                    /\ UNCHANGED ai_service
               ELSE /\ ai_service' = made.service
                    /\ pc' = "resolve"
                    /\ UNCHANGED <<exit_code, raised, out>>
    /\ UNCHANGED <<parserVars, build, mode, commits, prompt_style,
                   target_platform, rendered_prompt, generated_content,
                   platform_config, no_hashtags, include_hashtags, max_tags,
                   hashtags, formatted_post, shown, trace, gen_calls, response>>

\* the parser state after _parse_commit(c)
Parses(c) ==
    /\ commit' = c
    /\ file_types' = FileTypes(FilesChanged(c))
    /\ top_types' = TopTypes(FilesChanged(c))

ShowsCommit == <<"Commit:", "Message:", "Files:">>

\* a variant that goes on with the oldest commit of the range
PickOldest(list) == list[Len(list)]

\* cli.py:94: commit_info = commits[0]
PickCommit(list) == list[1]

\* cli.py:85-94: range mode
ResolveRange ==
    /\ pc = "resolve"
    /\ mode' = "range"
    /\ trace' = Append(trace, "resolve")
    /\ \/ \* iter_commits rejects the range
          /\ Abort("GitCommandError", <<"Note: Range mode", "Unexpected error">>)
          /\ UNCHANGED <<parserVars, commits>>
       \/ \E raw \in RangeResults :
            LET parsed == [i \in 1..Len(raw) |-> ParseCommit(raw[i])]
            IN  /\ commits' = parsed
                /\ IF parsed = <<>>
                   THEN /\ Abort("SystemExit",
                                 <<"Note: Range mode", "Error: No commits found in range.">>)
                        /\ UNCHANGED parserVars
                   ELSE /\ info' = PickCommit(parsed)
                        /\ Parses(raw[Len(raw)])
                        /\ pc' = "render"
                        /\ out' = out \o <<"Note: Range mode">> \o ShowsCommit
                        /\ UNCHANGED <<exit_code, raised>>
    /\ UNCHANGED <<build, active_provider, ai_service, prompt_style, target_platform,
                   rendered_prompt, generated_content, platform_config,
                   no_hashtags, include_hashtags, max_tags, hashtags,
                   formatted_post, shown, gen_calls, response>>

\* cli.py:95-98: --commit <ref>, or the latest commit
ResolveCommit ==
    /\ pc = "resolve"
    /\ trace' = Append(trace, "resolve")
    /\ \/ \* get_commit: the reference does not resolve (BadName);
          \* get_latest_commit: the repository has no commit yet (ValueError)
          \E m \in {"commit", "latest"} :
            /\ mode' = m
            /\ Abort(IF m = "commit" THEN "BadName" ELSE "ValueError",
                     <<"Unexpected error">>)
            /\ UNCHANGED parserVars
       \/ \E m \in {"commit", "latest"} :
          \E i \in 1..Len(History) :
            /\ m = "latest" => i = 1
            /\ mode' = m
            /\ info' = ParseCommit(History[i])
            /\ Parses(History[i])
            /\ pc' = "render"
            /\ out' = out \o ShowsCommit
            /\ UNCHANGED <<exit_code, raised>>
    /\ UNCHANGED <<build, active_provider, ai_service, commits, prompt_style, target_platform,
                   rendered_prompt, generated_content, platform_config,
                   no_hashtags, include_hashtags, max_tags, hashtags,
                   formatted_post, shown, gen_calls, response>>

\* what the handler of cli.py:114-119 prints after the error itself
ListsPrompts == <<"Available prompts:">>

\* cli.py:105-119: style and platform, then render_prompt
Render ==
    /\ pc = "render"
    /\ trace' = Append(trace, "render")
    /\ \E style \in StyleNames \cup {None}, default_prompt \in StyleNames,
          platform \in PlatformNames \cup {None},
          default_platform \in PlatformNames,
          cls \in PlaceholderErrorClasses :
        LET ps == IF style # None THEN style ELSE default_prompt
            tp == IF platform # None THEN platform ELSE default_platform
            r  == RenderPrompt(ps, ToDict(info))
        IN  /\ prompt_style' = ps
            /\ target_platform' = tp
            /\ IF r.ok
               THEN /\ rendered_prompt' = <<r.prompt>>
                    /\ pc' = "generate"
                    /\ UNCHANGED <<exit_code, raised, out>>
               ELSE /\ UNCHANGED rendered_prompt
                    /\ IF r.error = "TemplateNotFound" \/ cls = "KeyError"
                       THEN Abort(r.error, <<"Error: KeyError", r.name>> \o ListsPrompts)
                       ELSE Abort(r.error, <<"Unexpected error", r.name>>)
    /\ UNCHANGED <<parserVars, build, active_provider, ai_service, mode, commits,
                   generated_content, platform_config, no_hashtags,
                   include_hashtags, max_tags, hashtags, formatted_post, shown,
                   gen_calls, response>>

\* a variant that calls the backend again after a failure
AfterGenerateRetry(g) == IF g.ok THEN "platform" ELSE "generate"

\* where the command goes after generate_post: on, or out by sys.exit(1)
AfterGenerate(g) == IF g.ok THEN "platform" ELSE "exited"

\* cli.py:121-132: ai_service.generate_post
Generate ==
    /\ pc = "generate"
    /\ trace' = Append(trace, "generate")
    /\ \E resp \in Responses :
        LET g == GeneratePost(build, ai_service, resp)
        IN  /\ gen_calls' = IF Dispatches(build, ai_service)
                            THEN gen_calls + 1 ELSE gen_calls
            /\ response' = IF Dispatches(build, ai_service)
                           THEN <<resp>> ELSE response
            /\ pc' = AfterGenerate(g)
            /\ IF g.ok
               THEN /\ generated_content' = <<g.text>>
                    /\ UNCHANGED <<exit_code, raised, out>>
               ELSE /\ exit_code' = <<1>>
                    /\ raised' = "GenerationError"
                    /\ out' = Append(out, "Error generating post:")
                    /\ UNCHANGED generated_content
    /\ UNCHANGED <<parserVars, build, active_provider, ai_service, mode, commits, prompt_style,
                   target_platform, rendered_prompt, platform_config,
                   no_hashtags, include_hashtags, max_tags, hashtags,
                   formatted_post, shown>>

\* a variant without the except KeyError of cli.py:144
LookupPlatformStrict ==
    /\ pc = "platform"
    /\ trace' = Append(trace, "platform")
    /\ \E nh \in BOOLEAN, inc \in BOOLEAN, cap \in 0..MaxTags :
        /\ no_hashtags' = <<nh>>
        /\ include_hashtags' = <<inc>>
        /\ IF target_platform \notin DOMAIN Platforms
           THEN /\ Abort("KeyError", <<"Unexpected error">>)
                /\ platform_config' = <<[max_length |-> GenericMaxLength]>>
                /\ UNCHANGED <<hashtags, max_tags>>
           ELSE /\ platform_config' = <<Platforms[target_platform]>>
                /\ pc' = "format"
                /\ UNCHANGED <<out, exit_code, raised>>
                /\ IF ~nh /\ inc
                   THEN LET tags == Platforms[target_platform].hashtags
                        IN  /\ max_tags' = <<cap>>
                            /\ hashtags' = IF tags # <<>>
                                           THEN <<Prefix(tags, cap)>> ELSE <<>>
                   ELSE /\ hashtags' = <<>>
                        /\ UNCHANGED max_tags
    /\ UNCHANGED <<parserVars, build, active_provider, ai_service, mode, commits, prompt_style,
                   target_platform, rendered_prompt, generated_content,
                   formatted_post, shown, gen_calls, response>>

\* cli.py:134-149: the platform profile and its hashtags
LookupPlatform ==
    /\ pc = "platform"
    /\ trace' = Append(trace, "platform")
    /\ \E nh \in BOOLEAN, inc \in BOOLEAN, cap \in 0..MaxTags :
        /\ no_hashtags' = <<nh>>
        /\ include_hashtags' = <<inc>>
        /\ IF target_platform \notin DOMAIN Platforms
           THEN /\ out' = Append(out, "Warning: Unknown platform")
                /\ platform_config' = <<[max_length |-> GenericMaxLength]>>
                /\ hashtags' = <<>>
                /\ UNCHANGED max_tags
           ELSE /\ platform_config' = <<Platforms[target_platform]>>
                /\ UNCHANGED out
                /\ IF ~nh /\ inc
                   THEN LET tags == Platforms[target_platform].hashtags
                        IN  /\ max_tags' = <<cap>>
                            /\ hashtags' = IF tags # <<>>
                                           THEN <<Prefix(tags, cap)>> ELSE <<>>
                   ELSE /\ hashtags' = <<>>
                        /\ UNCHANGED max_tags
    /\ pc' = "format"
    /\ UNCHANGED <<parserVars, build, active_provider, ai_service, mode, commits, prompt_style,
                   target_platform, rendered_prompt, generated_content,
                   formatted_post, shown, exit_code, gen_calls, response, raised>>

\* cli.py:151-154: format_post
Format ==
    /\ pc = "format"
    /\ trace' = Append(trace, "format")
    /\ formatted_post' = <<FormatPost(generated_content[1], hashtags)>>
    /\ pc' = "display"
    /\ UNCHANGED <<parserVars, build, active_provider, ai_service, mode, commits, prompt_style,
                   target_platform, rendered_prompt, generated_content,
                   platform_config, no_hashtags, include_hashtags, max_tags,
                   hashtags, shown, out, exit_code, gen_calls, response, raised>>

\* a variant that flags a post of exactly the allowed length as well
CountColorStrict(char_count, max_length) ==
    IF char_count < max_length THEN "green" ELSE "red"

\* cli.py:170: the colour of the character count
CountColor(char_count, max_length) ==
    IF char_count <= max_length THEN "green" ELSE "red"

\* cli.py:156-173: the panel and the character count
Display ==
    /\ pc = "display"
    /\ trace' = Append(trace, "display")
    /\ LET char_count == Len(formatted_post[1])
           max_length == IF "max_length" \in DOMAIN platform_config[1]
                         THEN platform_config[1].max_length ELSE DefaultMaxLength
       IN  shown' = <<[char_count |-> char_count, max_length |-> max_length,
                       count_color |-> CountColor(char_count, max_length)]>>
    /\ out' = out \o <<"Generated Post", "Characters:">>
    /\ pc' = "copy"
    /\ UNCHANGED <<parserVars, build, active_provider, ai_service, mode, commits, prompt_style,
                   target_platform, rendered_prompt, generated_content,
                   platform_config, no_hashtags, include_hashtags, max_tags,
                   hashtags, formatted_post, exit_code, gen_calls, response, raised>>

\* cli.py:175-181: the clipboard; then the command returns
Copy ==
    /\ pc = "copy"
    /\ \E no_copy \in BOOLEAN, should_copy \in BOOLEAN, clipboard_ok \in BOOLEAN :
        IF ~no_copy /\ should_copy
        THEN /\ trace' = Append(trace, "copy")
             /\ out' = Append(out, IF clipboard_ok THEN "Copied to clipboard!"
                                   ELSE "Could not copy to clipboard")
        ELSE UNCHANGED <<trace, out>>
    /\ pc' = "done"
    /\ exit_code' = <<0>>
    /\ UNCHANGED <<parserVars, build, active_provider, ai_service, mode, commits, prompt_style,
                   target_platform, rendered_prompt, generated_content,
                   platform_config, no_hashtags, include_hashtags, max_tags,
                   hashtags, formatted_post, shown, gen_calls, response, raised>>

Next ==
    \/ ImportModules
    \/ InitServices
    \/ ResolveRange
    \/ ResolveCommit
    \/ Render
    \/ Generate
    \/ LookupPlatform
    \/ Format
    \/ Display
    \/ Copy

Spec == Init /\ [][Next]_vars

(***************************************************************************)
(* The parser on its own: one raw commit, parsed once.                     *)
(***************************************************************************)
InitParse ==
    /\ commit \in RootCommits \cup ChildCommits
    /\ info = NoInfo
    /\ file_types = <<>>
    /\ top_types = <<>>
    /\ pc = "parser"
    /\ build = "HEAD"
    /\ active_provider = None
    /\ ai_service = NoService
    /\ mode = None
    /\ commits = <<>>
    /\ prompt_style = None
    /\ target_platform = None
    /\ rendered_prompt = <<>>
    /\ generated_content = <<>>
    /\ platform_config = <<>>
    /\ no_hashtags = <<>>
    /\ include_hashtags = <<>>
    /\ max_tags = <<>>
    /\ hashtags = <<>>
    /\ formatted_post = <<>>
    /\ shown = <<>>
    /\ out = <<>>
    /\ exit_code = <<>>
    /\ trace = <<>>
    /\ gen_calls = 0
    /\ response = <<>>
    /\ raised = None

\* GitParser._parse_commit(commit), with the locals of _create_diff_summary
DoParseCommit ==
    /\ info = NoInfo
    /\ info' = ParseCommit(commit)
    /\ file_types' = FileTypes(FilesChanged(commit))
    /\ top_types' = TopTypes(FilesChanged(commit))
    /\ UNCHANGED <<commit, cliVars>>

NextParse == DoParseCommit

SpecParse == InitParse /\ [][NextParse]_vars

(***************************************************************************)
(* Properties of the diff summary (GitParser._create_diff_summary).        *)
(***************************************************************************)
Parsed == info # NoInfo

RECURSIVE SumCounts(_)
SumCounts(items) ==
    IF items = <<>> THEN 0 ELSE Head(items).count + SumCounts(Tail(items))

\* the non-empty elements of a sequence of texts, in order
RECURSIVE NonEmpty(_)
NonEmpty(parts) ==
    IF parts = <<>> THEN <<>>
    ELSE (IF Head(parts) = <<>> THEN <<>> ELSE <<Head(parts)>>)
            \o NonEmpty(Tail(parts))

SFileChanged  == <<" ", "f", "i", "l", "e", " ", "c", "h", "a", "n", "g", "e", "d">>
SFilesChanged == <<" ", "f", "i", "l", "e", "s", " ", "c", "h", "a", "n", "g", "e", "d">>
STypesColon   == <<"t", "y", "p", "e", "s", ":">>
ScenarioA     == <<"3", " ", "f", "i", "l", "e", "s", " ", "c", "h", "a", "n", "g", "e", "d", " ", "|", " ", "t", "y", "p", "e", "s", ":", " ", ".", "p", "y", " ", "(", "2", ")", ",", " ", ".", "m", "d", " ", "(", "1", ")", " ", "|", " ", "+", "1", "0", " ", "-", "2">>
ScenarioB     == <<"0", " ", "f", "i", "l", "e", "s", " ", "c", "h", "a", "n", "g", "e", "d">>

C1_CountClause(n) ==
    IntToStr(n) \o (IF n = 1 THEN SFileChanged ELSE SFilesChanged)

C1_TypesClause(files, top) ==
    IF files = <<>> THEN <<>>
    ELSE STypes \o Join([i \in 1..Len(top) |->
            top[i].ext \o <<" ", "(">> \o IntToStr(top[i].count) \o <<")">>],
                        SComma)

C1_LineClause(ins, del) ==
    IF ins > 0 /\ del > 0 THEN <<"+">> \o IntToStr(ins) \o <<" ", "-">> \o IntToStr(del)
    ELSE IF ins > 0 THEN <<"+">> \o IntToStr(ins)
    ELSE IF del > 0 THEN <<"-">> \o IntToStr(del)
    ELSE <<>>

\* C1: the summary is the non-empty clauses (file count, types, lines), in
\* that order, joined with " | "; "<n> file changed" only for n = 1; the line
\* clause is "+<ins>" and "-<del>", each only when positive, joined by one
\* space.  [a.py, b.py, c.md] with +10 -2 gives
\* "3 files changed | types: .py (2), .md (1) | +10 -2", and no files with
\* 0/0 gives "0 files changed".
C1_SummaryFormat ==
    Parsed =>
        /\ info.diff_summary =
              Join(NonEmpty(<<C1_CountClause(Len(info.files_changed)),
                              C1_TypesClause(info.files_changed, top_types),
                              C1_LineClause(info.insertions, info.deletions)>>),
                   SBar)
        /\ (info.files_changed = <<PAPy, PBPy, PCMd>>
                /\ info.insertions = 10 /\ info.deletions = 2)
              => info.diff_summary = ScenarioA
        /\ (info.files_changed = <<>>
                /\ info.insertions = 0 /\ info.deletions = 0)
              => info.diff_summary = ScenarioB

C1_Witness ==
    /\ Parsed
    /\ info.files_changed = <<PAPy, PBPy, PCMd>>
    /\ info.insertions = 10 /\ info.deletions = 2
    /\ info.diff_summary = ScenarioA

\* C2: the summary always holds the "file(s) changed" clause, and holds a
\* "types:" clause exactly when the file list is not empty.
C2_Clauses ==
    Parsed =>
        /\ Contains(info.diff_summary, SFileChanged)
              \/ Contains(info.diff_summary, SFilesChanged)
        /\ Contains(info.diff_summary, STypesColon) <=> info.files_changed # <<>>

C2_Witness ==
    /\ Parsed
    /\ info.files_changed = <<>>
    /\ info.insertions = 3
    /\ ~Contains(info.diff_summary, STypesColon)

\* the categories listed in the summary: each is rendered with one "("
ListedCategories(summary) ==
    Cardinality({i \in 1..Len(summary) : summary[i] = "("})

\* C3: the types clause lists at most 3 categories, and the counts shown
\* add up to at most the number of changed files.
C3_AtMostThree ==
    Parsed =>
        /\ ListedCategories(info.diff_summary) <= 3
        /\ ListedCategories(info.diff_summary) = Len(top_types)
        /\ SumCounts(top_types) <= Len(info.files_changed)
        /\ top_types # <<>> =>
              Contains(info.diff_summary, C1_TypesClause(info.files_changed, top_types))

C3_Witness ==
    /\ Parsed
    /\ Len(file_types) > 3
    /\ ListedCategories(info.diff_summary) = 3
    /\ SumCounts(top_types) < Len(info.files_changed)

\* the categories of a file list, their sizes and first occurrences
CategoriesOf(files) == {ExtOf(files[i]) : i \in 1..Len(files)}
CountIn(files, e) == Cardinality({i \in 1..Len(files) : ExtOf(files[i]) = e})
FirstIn(files, e) ==
    CHOOSE i \in 1..Len(files) :
        /\ ExtOf(files[i]) = e
        /\ \A j \in 1..(i - 1) : ExtOf(files[j]) # e
RankedBefore(files, e1, e2) ==
    \/ CountIn(files, e1) > CountIn(files, e2)
    \/ /\ CountIn(files, e1) = CountIn(files, e2)
       /\ FirstIn(files, e1) < FirstIn(files, e2)

\* C4: the categories shown are ranked by descending file count, equal
\* counts in the order their first file was met, and they are the top 3 of
\* that ranking.
C4_Ranking ==
    Parsed =>
        LET files == info.files_changed
            cats  == CategoriesOf(files)
            listed == {top_types[i].ext : i \in 1..Len(top_types)}
        IN  /\ Len(top_types) = Min(3, Cardinality(cats))
            /\ \A i \in 1..Len(top_types) :
                  /\ top_types[i].ext \in cats
                  /\ top_types[i].count = CountIn(files, top_types[i].ext)
            /\ \A i, j \in 1..Len(top_types) :
                  i < j => RankedBefore(files, top_types[i].ext, top_types[j].ext)
            /\ \A e \in cats \ listed : \A s \in listed : RankedBefore(files, s, e)
            /\ top_types # <<>> =>
                  Contains(info.diff_summary, C1_TypesClause(files, top_types))

\* more than three categories, a tie at the cut, and a category met later
\* ranked first
C4_Witness ==
    /\ Parsed
    /\ Cardinality(CategoriesOf(info.files_changed)) > 3
    /\ top_types[3].count = 1

C4_WitnessReorder ==
    /\ Parsed
    /\ Len(top_types) >= 2
    /\ FirstIn(info.files_changed, top_types[1].ext)
          > FirstIn(info.files_changed, top_types[2].ext)

(***************************************************************************)
(* How a file is put into its category.                                    *)
(***************************************************************************)
\* file_types groups the files by the labelling L: every file's label is a
\* key, and every key counts the files that carry it
GroupedBy(L(_)) ==
    LET files == info.files_changed
    IN  /\ \A i \in 1..Len(files) :
              \E k \in 1..Len(file_types) : file_types[k].ext = L(files[i])
        /\ \A k \in 1..Len(file_types) :
              file_types[k].count =
                  Cardinality({i \in 1..Len(files) : L(files[i]) = file_types[k].ext})

\* the label as "the substring after the last '.' in the path" has it, shown
\* with its dot as the summary shows it; the sentinel when that is empty
AfterLastDot(p) ==
    IF RFind(p, ".") = 0 \/ RFind(p, ".") = Len(p) THEN NoExtension
    ELSE SubSeq(p, RFind(p, "."), Len(p))

\* C5 as stated: every path is grouped under the substring after its last
\* '.', or under "no extension" when it has none, whatever its shape.
C5_AfterLastDot == Parsed => GroupedBy(AfterLastDot)

\* the label of os.path.splitext: the text from the last '.' on, when that
\* dot is in the last path component and is not one of its leading dots
SuffixLabel(p) ==
    LET sep == RFind(p, "/")
        dot == RFind(p, ".")
    IN  IF dot > sep /\ (\E k \in (sep + 1)..(dot - 1) : p[k] # ".")
        THEN SubSeq(p, dot, Len(p))
        ELSE NoExtension

SGz == <<".", "g", "z">>

\* C5, amended: a file is grouped under the suffix of its path that starts
\* at the last '.', dot included, when that dot lies in the last path
\* component and follows a character of it that is not a dot; under "no
\* extension" otherwise.  So ".gitignore" and "dir.v2/file" are "no
\* extension", "a." is ".", and "a.tar.gz" is ".gz".
C5_SuffixLabel ==
    Parsed =>
        /\ GroupedBy(SuffixLabel)
        /\ \A k \in 1..Len(file_types) :
              file_types[k].ext \in {NoExtension, <<".">>, SGz, <<".", "p", "y">>,
                                     <<".", "m", "d">>}

C5_Witness ==
    /\ Parsed
    /\ info.files_changed = <<PGitignore, PDirFile, PTrailDot, PTarGz>>
    /\ file_types = <<[ext |-> NoExtension, count |-> 2],
                      [ext |-> <<".">>, count |-> 1],
                      [ext |-> SGz, count |-> 1]>>

(***************************************************************************)
(* Properties of the CommitInfo (GitParser._parse_commit).                 *)
(***************************************************************************)
\* C6: for a root commit the changed files are the keys of the commit's own
\* file statistics, in their order, and the line counts are its totals.
C6_RootCommit ==
    (Parsed /\ commit.parents = <<>>) =>
        /\ info.files_changed = commit.stats_files
        /\ info.insertions = commit.insertions
        /\ info.deletions = commit.deletions

C6_Witness ==
    /\ Parsed
    /\ commit.parents = <<>>
    /\ info.files_changed = <<PCMd, PAPy, PCMd>>
    /\ info.insertions = 10

\* C7: for a commit with parents there is one changed file per diff entry
\* against the first parent, in diff order: the entry's before-path when it
\* has one, else its after-path; other parents contribute nothing.
C7_FirstParentDiff ==
    (Parsed /\ commit.parents # <<>>) =>
        LET diffs == commit.parents[1]
        IN  /\ Len(info.files_changed) = Len(diffs)
            /\ \A i \in 1..Len(diffs) :
                  info.files_changed[i] =
                      IF diffs[i].a_path # NoPath THEN diffs[i].a_path
                      ELSE diffs[i].b_path
            /\ info.insertions = commit.insertions
            /\ info.deletions = commit.deletions

\* a merge commit whose first-parent diff holds a rename and an added file
C7_Witness ==
    /\ Parsed
    /\ Len(commit.parents) = 2
    /\ commit.parents[2] # <<>>
    /\ commit.parents[1] = <<[a_path |-> PAPy, b_path |-> PCMd],
                             [a_path |-> NoPath, b_path |-> PGitignore]>>
    /\ info.files_changed = <<PAPy, PGitignore>>

(***************************************************************************)
(* Properties of the main command (cli).                                   *)
(***************************************************************************)
StageOrder == <<"import", "resolve", "render", "generate", "platform",
                "format", "display", "copy">>

IsPrefix(a, b) == Len(a) <= Len(b) /\ SubSeq(b, 1, Len(a)) = a

InTrace(stage) == \E i \in 1..Len(trace) : trace[i] = stage

\* C8: the stages run in the order resolve, render, generate, format, each
\* at most once; the backend is called at most once, never again after a
\* failure, and only after a commit was resolved and the prompt rendered;
\* the post is formatted only after generation returned text.
C8_LinearPipeline ==
    /\ IsPrefix(trace, StageOrder)
    /\ gen_calls <= 1
    /\ gen_calls = 1 =>
          /\ InTrace("generate")
          /\ info # NoInfo
          /\ rendered_prompt # <<>>
    /\ raised = "GenerationError" => pc = "exited" /\ formatted_post = <<>>
    /\ InTrace("format") =>
          /\ gen_calls = 1
          /\ generated_content # <<>>
          /\ formatted_post # <<>>

C8_Witness ==
    /\ pc = "done"
    /\ gen_calls = 1
    /\ trace = StageOrder

FatalErrors == {"InvalidGitRepositoryError", "BadName", "GitCommandError",
                "TemplateNotFound", "MissingPlaceholder"}

ErrorMessages == {"Error: not a git repository", "Unexpected error",
                  "Error: KeyError"}

\* C9: an invalid repository, an unresolved reference, a style without a
\* template or a placeholder without a mapping ends the invocation at once:
\* a message is printed, the exit status is not zero, and neither the
\* generation call nor the platform lookup, the formatting, the display or
\* the clipboard copy happens.
C9_FatalAborts ==
    raised \in FatalErrors =>
        /\ pc = "exited"
        /\ exit_code # <<>> /\ exit_code[1] # 0
        /\ \E i \in 1..Len(out) : out[i] \in ErrorMessages
        /\ gen_calls = 0
    /\ response = <<>>
        /\ generated_content = <<>>
        /\ platform_config = <<>>
        /\ formatted_post = <<>>
        /\ shown = <<>>
        /\ \A st \in {"generate", "platform", "format", "display", "copy"} :
              ~InTrace(st)
        /\ ~ENABLED Next

C9_Witness ==
    /\ raised = "MissingPlaceholder"
    /\ pc = "exited"
    /\ exit_code = <<1>>
    /\ info # NoInfo
    /\ prompt_style = "broken"

\* C10: a platform name without a profile does not end the invocation: the
\* lookup yields the generic profile with max_length 500 and no hashtags,
\* also when hashtags were asked for; the post is formatted and displayed,
\* its length measured against 500.
C10_UnknownPlatform ==
    (target_platform \notin DOMAIN Platforms /\ InTrace("platform")) =>
        /\ pc \in {"format", "display", "copy", "done"}
        /\ raised = None
        /\ exit_code \in {<<>>, <<0>>}
        /\ platform_config = <<[max_length |-> 500]>>
        /\ hashtags = <<>>
        /\ pc # "format" =>
              /\ formatted_post = generated_content
        /\ pc \in {"copy", "done"} =>
              /\ shown # <<>>
              /\ shown[1].max_length = 500
              /\ shown[1].char_count = Len(generated_content[1])
              /\ \E i \in 1..Len(out) : out[i] = "Generated Post"
        /\ pc = "done" => exit_code = <<0>>

C10_Witness ==
    /\ pc = "done"
    /\ target_platform = "mastodon"
    /\ no_hashtags = <<FALSE>>
    /\ include_hashtags = <<TRUE>>
    /\ hashtags = <<>>
    /\ shown # <<>>
    /\ shown[1].max_length = 500
    /\ shown[1].char_count = 2

(***************************************************************************)
(* The hashtags and the length of the post.                                *)
(***************************************************************************)
HashtagsRequested == no_hashtags = <<FALSE>> /\ include_hashtags = <<TRUE>>

\* the number of '#' characters of a text
HashCount(text) == Cardinality({i \in 1..Len(text) : text[i] = "#"})

\* C11: once the platform was looked up, the hashtags handed to format_post
\* are none at all when --no-hashtags was given or the configuration turns
\* hashtags off; otherwise they are at most max_hashtags many and a prefix,
\* in the platform's order, of the platform's hashtag list; the formatted
\* post carries exactly these tags.
C11_HashtagCap ==
    InTrace("platform") =>
        /\ ~HashtagsRequested => hashtags = <<>>
        /\ hashtags # <<>> =>
              /\ target_platform \in DOMAIN Platforms
              /\ max_tags # <<>>
              /\ Len(hashtags[1]) <= max_tags[1]
              /\ IsPrefix(hashtags[1], Platforms[target_platform].hashtags)
        /\ formatted_post # <<>> =>
              HashCount(formatted_post[1]) =
                  IF hashtags = <<>> THEN 0 ELSE Len(hashtags[1])

\* the cap cuts the four tags of the platform down to its first two, and
\* the post was formatted with them
C11_Witness ==
    /\ pc = "done"
    /\ target_platform = "twitter"
    /\ HashtagsRequested
    /\ max_tags = <<2>>
    /\ hashtags = <<<<<<"d", "e", "v">>, <<"g", "i", "t">>>>>>
    /\ HashCount(formatted_post[1]) = 2

\* C12: the post is formatted and shown in full whatever the limit: the count
\* shown is the length of the whole formatted post, next to the max_length
\* of the profile; the count is flagged (red) exactly when it is greater
\* than max_length; a post over the limit is still displayed, the clipboard
\* step is still reached and the invocation does not fail.  A text of 450
\* characters on a platform of max_length 280 is shown as 450/280, flagged.
C12_NeverTruncated ==
    /\ formatted_post # <<>> =>
          /\ formatted_post[1] = FormatPost(generated_content[1], hashtags)
          /\ IsPrefix(generated_content[1], formatted_post[1])
    /\ shown # <<>> =>
          /\ shown[1].char_count = Len(formatted_post[1])
          /\ shown[1].max_length = platform_config[1].max_length
          /\ shown[1].count_color \in {"green", "red"}
          /\ shown[1].count_color = "red" <=>
                shown[1].char_count > shown[1].max_length
          /\ shown[1].char_count > shown[1].max_length =>
                /\ raised = None
                /\ pc \in {"copy", "done"}
                /\ exit_code \in {<<>>, <<0>>}
                /\ \E i \in 1..Len(out) : out[i] = "Generated Post"
                /\ pc = "copy" => ENABLED Copy
          /\ (Len(generated_content[1]) = 450 /\ hashtags = <<>>
                /\ platform_config[1].max_length = 280) =>
                shown[1] = [char_count |-> 450, max_length |-> 280,
                            count_color |-> "red"]

\* 450 characters against 280: shown in full, flagged, copied, exit status 0
C12_Witness ==
    /\ pc = "done"
    /\ exit_code = <<0>>
    /\ target_platform = "twitter"
    /\ Len(generated_content[1]) = 450
    /\ formatted_post = generated_content
    /\ shown = <<[char_count |-> 450, max_length |-> 280, count_color |-> "red"]>>
    /\ \E i \in 1..Len(out) : out[i] = "Copied to clipboard!"

(***************************************************************************)
(* The answers of the backend.                                             *)
(***************************************************************************)
\* the text of an answer that carries one
BackendText(resp) ==
    IF resp.kind = "str" THEN resp.text ELSE Join(resp.parts, SSpace)

\* the call raised, or answered without choices, without content, or with a
\* text of which nothing is left after trimming
NoUsableText(resp) ==
    \/ resp.kind \in {"raises", "no_choices", "none"}
    \/ resp.kind = "str" /\ Strip(resp.text) = <<>>

\* C13: after a backend call that raised or answered with no choices, no
\* content or a text that is empty once trimmed, generate_post has returned
\* nothing: the invocation has ended with "Error generating post" and exit
\* status 1, and no post was formatted, displayed or copied; a value that
\* generate_post did return is the text of the answer, trimmed.
C13_NoUsableTextFails ==
    (InTrace("generate") /\ response # <<>>) =>
        /\ NoUsableText(response[1]) =>
              /\ generated_content = <<>>
              /\ raised = "GenerationError"
              /\ pc = "exited"
              /\ exit_code = <<1>>
              /\ \E i \in 1..Len(out) : out[i] = "Error generating post:"
              /\ formatted_post = <<>>
              /\ shown = <<>>
              /\ ~InTrace("format") /\ ~InTrace("display") /\ ~InTrace("copy")
        /\ generated_content # <<>> =>
              /\ response[1].kind \in {"str", "list"}
              /\ generated_content[1] = Strip(BackendText(response[1]))

(***************************************************************************)
(* The two failures of the render step.                                    *)
(***************************************************************************)
Printed(message) == \E i \in 1..Len(out) : out[i] = message

\* C14: a placeholder without a mapping ends the render step with a report
\* that names the placeholder and that does not list the available
\* templates; the list of templates is printed when, and only when, the
\* requested style has no template.
C14_ListingOnlyForNotFound ==
    /\ raised = "MissingPlaceholder" =>
          /\ Printed("branch")
          /\ ~Printed("Available prompts:")
    /\ raised = "TemplateNotFound" =>
          /\ Printed(prompt_style)
          /\ Printed("Available prompts:")
    /\ Printed("Available prompts:") => raised = "TemplateNotFound"

(***************************************************************************)
(* Range mode.                                                             *)
(***************************************************************************)
\* how often a stage was run
TimesRun(stage) == Cardinality({i \in 1..Len(trace) : trace[i] = stage})

\* C15: in range mode, once the range was resolved: with no commit in it the
\* invocation has ended with an error and exit status 1, nothing rendered
\* and the backend not called; with one or more commits the pipeline runs
\* once (render, generation call and formatting at most once each, each
\* exactly once when the command completes) on the first commit of the
\* list: the prompt is the rendering of that commit alone.
C15_RangeFirstOnly ==
    (mode = "range" /\ raised # "GitCommandError") =>
        /\ commits = <<>> =>
              /\ pc = "exited"
              /\ exit_code = <<1>>
              /\ Printed("Error: No commits found in range.")
              /\ TimesRun("render") = 0 /\ TimesRun("generate") = 0
              /\ rendered_prompt = <<>>
              /\ gen_calls = 0
              /\ formatted_post = <<>>
        /\ commits # <<>> =>
              /\ info = commits[1]
              /\ rendered_prompt # <<>> =>
                    rendered_prompt[1] =
                        RenderPrompt(prompt_style, ToDict(commits[1])).prompt
              /\ TimesRun("render") <= 1
              /\ TimesRun("generate") <= 1
              /\ TimesRun("format") <= 1
              /\ gen_calls <= 1
              /\ pc = "done" =>
                    /\ TimesRun("render") = 1
                    /\ TimesRun("generate") = 1
                    /\ TimesRun("format") = 1
                    /\ gen_calls = 1
                    /\ formatted_post # <<>>

\* a range of two different commits, the command completed on the first
C15_Witness ==
    /\ mode = "range"
    /\ pc = "done"
    /\ Len(commits) = 2
    /\ commits[1] # commits[2]
    /\ info = commits[1]
    /\ rendered_prompt # <<>>
    /\ gen_calls = 1
    /\ formatted_post # <<>>

\* an empty range: the command has ended before the render step
C15_WitnessEmpty ==
    /\ mode = "range"
    /\ commits = <<>>
    /\ raised = "SystemExit"
    /\ pc = "exited"

(***************************************************************************)
(* The providers.                                                          *)
(***************************************************************************)
\* AIService(p, api_key) without a model gives an instance with a client,
\* and generate_post of that instance reaches a backend call
Usable(b, p) ==
    LET made == NewService(b, p, TRUE, None)
    IN  /\ made.ok
        /\ made.service.client # None
        /\ Dispatches(b, made.service)

\* C16: every provider of supported_providers() is usable once the modules
\* are loaded: AIService can be constructed for it with an API key and no
\* model, with a default model and a client, and generate_post reaches a
\* backend call; so the command never passes the provider check of cli.py
\* and then fails in AIService.__init__, never holds an instance without a
\* client, and never runs generate_post without a backend call.
C16_SupportedUsable ==
    /\ trace # <<>> =>
          \A i \in 1..Len(SupportedProviders) :
              Usable(build, SupportedProviders[i])
    /\ ~(/\ IsSupported(active_provider)
         /\ raised = "ValueError"
         /\ TimesRun("resolve") = 0)
    /\ ai_service # NoService => ai_service.client # None
    /\ TimesRun("generate") = 1 => gen_calls = 1


=============================================================================
